---- MODULE Spec2Model ----
(***************************************************************************)
(* Model of ppt-doc-compressor: processDocument (core/processor.ts) with   *)
(* the dimension extractors, the image transcoder, the relationship and    *)
(* content-type patching, and the batch loop compressAll (main.ts) over    *)
(* the file list (ui/file-list.ts).                                        *)
(*                                                                         *)
(* Strings are sequences of tokens.  "/" and "." are tokens of their own,  *)
(* every other token stands for a run of characters holding neither, so    *)
(* split("."), lastIndexOf("/"), startsWith, endsWith, includes and        *)
(* replaceAll are computed on the token sequence as the code computes them *)
(* on the characters.                                                      *)
(***************************************************************************)
EXTENDS Integers, Sequences, FiniteSets, TLC

\* ------------------------------------------------------------------ bounds
\* media entries per archive of the media family
MaxMedia == 2
\* size observations per archive of the dimension family
MaxObs == 3
\* relationship targets per archive of the rels family
MaxTargets == 2
\* file entries ever added to the list
MaxFiles == 3
\* compressAll activations in flight at once
MaxTasks == 2
\* byte size of every original image
OrigSize == 2
\* native pixel width of every original image
NaturalWidth == 200
\* native pixel height of every original image
NaturalHeight == 100
\* extents tried by the unit conversion run from 0 to MaxEmuSteps steps
MaxEmuSteps == 60
\* components of a relationship target handed to resolvePath on its own
MaxParts == 3
\* Default elements of a [Content_Types].xml handed to updateContentTypes on its own
MaxDefaults == 3
\* times updateContentTypes is applied in a row to one archive
MaxApplications == 2

\* sizes an encoder can return: below, equal to and above OrigSize
MaxSize == OrigSize + 1
\* ------------------------------------------------------- program constants
EMU_PER_INCH == 914400
SENTINEL == 99999
DefaultDpi == 150
\* the presets of the DPI select
DPI_OPTIONS == {96, 150, 300}
RASTER_EXTENSIONS ==
  {<<"png">>, <<"jpg">>, <<"jpeg">>, <<"gif">>, <<"bmp">>, <<"tiff">>, <<"tif">>}

\* ------------------------------------------------------------ string model
\* String.prototype.toLowerCase on one token
ToLowerTok(t) ==
  CASE t = "PNG" -> "png"
    [] t = "JPEG" -> "jpeg"
    [] t = "WEBP" -> "webp"
    [] t = "PPTX" -> "pptx"
    [] t = "DOCX" -> "docx"
    [] OTHER -> t

ToLower(s) == [i \in 1..Len(s) |-> ToLowerTok(s[i])]

StartsWith(s, p) == Len(p) <= Len(s) /\ SubSeq(s, 1, Len(p)) = p

EndsWith(s, p) == Len(p) <= Len(s) /\ SubSeq(s, Len(s) - Len(p) + 1, Len(s)) = p

\* 1-based index of the last occurrence of token t in s, 0 when there is none
LastIndexOf(s, t) ==
  LET hits == {i \in 1..Len(s) : s[i] = t}
  IN IF hits = {} THEN 0 ELSE CHOOSE i \in hits : \A j \in hits : j <= i

\* s.substring(s.lastIndexOf(t) + 1)
AfterLast(s, t) == SubSeq(s, LastIndexOf(s, t) + 1, Len(s))

\* s.substring(0, s.lastIndexOf(t))
BeforeLast(s, t) == SubSeq(s, 1, LastIndexOf(s, t) - 1)

MatchAt(s, pat, i) == i + Len(pat) - 1 <= Len(s) /\ SubSeq(s, i, i + Len(pat) - 1) = pat

\* String.prototype.includes
Includes(s, pat) == \E i \in 1..Len(s) : MatchAt(s, pat, i)

RECURSIVE ReplaceAllFrom(_, _, _, _)
ReplaceAllFrom(s, pat, rep, i) ==
  IF i > Len(s) THEN <<>>
  ELSE IF MatchAt(s, pat, i) THEN rep \o ReplaceAllFrom(s, pat, rep, i + Len(pat))
  ELSE <<s[i]>> \o ReplaceAllFrom(s, pat, rep, i + 1)

\* String.prototype.replaceAll with a string pattern: left to right, non-overlapping
ReplaceAll(s, pat, rep) == ReplaceAllFrom(s, pat, rep, 1)

\* path.split(".").pop()?.toLowerCase()
ExtOf(path) == ToLower(AfterLast(path, "."))

\* path.replace(/\.[^.]+$/, "." + newExt)
ReplaceExt(path, newExt) ==
  LET d == LastIndexOf(path, ".")
  IN IF d = 0 \/ d = Len(path) THEN path
     ELSE SubSeq(path, 1, d) \o <<newExt>>

\* ------------------------------------------------------------ archive store
\* A JSZip archive: entries in insertion order, each [path, data].
ZipIndex(z, path) ==
  LET hits == {i \in 1..Len(z) : z[i].path = path}
  IN IF hits = {} THEN 0 ELSE CHOOSE i \in hits : TRUE

\* zip.file(path) !== null
ZipHas(z, path) == ZipIndex(z, path) # 0

\* the data of zip.file(path)
ZipGet(z, path) == z[ZipIndex(z, path)].data

\* zip.file(path, data): this.files[path] = object (an existing key keeps its place)
ZipPut(z, path, data) ==
  IF ZipHas(z, path)
  THEN [z EXCEPT ![ZipIndex(z, path)] = [path |-> path, data |-> data]]
  ELSE Append(z, [path |-> path, data |-> data])

\* zip.remove(path)
ZipRemove(z, path) == SelectSeq(z, LAMBDA e : e.path # path)

\* the paths zip.forEach visits, in order
ZipPaths(z) == [i \in 1..Len(z) |-> z[i].path]

ZipPathSet(z) == {z[i].path : i \in 1..Len(z)}

\* ------------------------------------------------------ relationship resolver
RECURSIVE SplitFrom(_, _, _, _)
SplitFrom(s, sep, i, cur) ==
  IF i > Len(s) THEN <<cur>>
  ELSE IF s[i] = sep THEN <<cur>> \o SplitFrom(s, sep, i + 1, <<>>)
  ELSE SplitFrom(s, sep, i + 1, Append(cur, s[i]))

\* String.prototype.split(sep): never empty, "" splits to [""]
Split(s, sep) == SplitFrom(s, sep, 1, <<>>)

RECURSIVE Join(_, _)
\* Array.prototype.join(sep)
Join(parts, sep) ==
  IF Len(parts) = 0 THEN <<>>
  ELSE IF Len(parts) = 1 THEN parts[1]
  ELSE parts[1] \o <<sep>> \o Join(Tail(parts), sep)

RECURSIVE WalkParts(_, _)
WalkParts(parts, relParts) ==
  IF relParts = <<>> THEN parts
  ELSE LET part == Head(relParts)
       IN IF part = <<".", ".">>
          THEN WalkParts(IF parts = <<>> THEN parts ELSE SubSeq(parts, 1, Len(parts) - 1),
                         Tail(relParts))
          ELSE IF part # <<".">>
          THEN WalkParts(Append(parts, part), Tail(relParts))
          ELSE WalkParts(parts, Tail(relParts))

\* the mutation of resolvePath that never walks the components
resolvePathAppend(base, relative) == base \o <<"/">> \o relative

\* resolvePath(base, relative)
resolvePath(base, relative) ==
  IF ~StartsWith(relative, <<".", ".">>) /\ ~StartsWith(relative, <<".", "/">>)
  THEN base \o <<"/">> \o relative
  ELSE Join(WalkParts(Split(base, "/"), Split(relative, "/")), "/")

\* The text of a .rels part is the concatenation of its Relationship elements:
\* "<Relationship" ["Id=" id] ["Target=" target...] "/>".
RelElement(r) ==
  <<"<Relationship">>
  \o (IF r.id = "" THEN <<>> ELSE <<"Id=", r.id>>)
  \o (IF r.target = <<>> THEN <<>> ELSE <<"Target=">> \o r.target)
  \o <<"/>">>

RECURSIVE RelsText(_)
RelsText(rs) == IF rs = <<>> THEN <<>> ELSE RelElement(Head(rs)) \o RelsText(Tail(rs))

FirstIndexFrom(s, t, i) ==
  LET hits == {j \in i..Len(s) : s[j] = t}
  IN IF hits = {} THEN 0 ELSE CHOOSE j \in hits : \A k \in hits : j <= k

\* rel.getAttribute("Id") and rel.getAttribute("Target") of one element's tokens
ElementAttrs(el) ==
  LET k == FirstIndexFrom(el, "Id=", 1)
      t == FirstIndexFrom(el, "Target=", 1)
  IN [id |-> IF k = 0 \/ k = Len(el) THEN "" ELSE el[k + 1],
      target |-> IF t = 0 THEN <<>> ELSE SubSeq(el, t + 1, Len(el))]

RECURSIVE RelElementsFrom(_, _)
\* doc.getElementsByTagName("Relationship"), each as its attributes
RelElementsFrom(text, i) ==
  LET e == FirstIndexFrom(text, "/>", i)
  IN IF i > Len(text) \/ e = 0 THEN <<>>
     ELSE <<ElementAttrs(SubSeq(text, i + 1, e - 1))>> \o RelElementsFrom(text, e + 1)

RelElements(text) == RelElementsFrom(text, 1)

RECURSIVE RelsFold(_, _, _)
RelsFold(els, parentDir, map) ==
  IF els = <<>> THEN map
  ELSE LET rel == Head(els)
       IN IF rel.id = "" \/ rel.target = <<>>
          THEN RelsFold(Tail(els), parentDir, map)
          ELSE RelsFold(Tail(els), parentDir,
                 [k \in DOMAIN map \cup {rel.id} |->
                    IF k = rel.id THEN resolvePath(parentDir, rel.target) ELSE map[k]])

\* parseRels(relsXml, parentDir): rId -> resolved path
parseRels(relsXml, parentDir) == RelsFold(RelElements(relsXml), parentDir, <<>>)

\* -------------------------------------------------------- dimension extractor
\* IEEE 754 binary64 arithmetic, as far as emuToPixels needs it.  A positive
\* Number is [bits, ex]: bits are the 53 bits of its significand, the most
\* significant first, and its value is the integer they spell times 2^ex.
SIGNIFICAND_BITS == 53

\* the binary digits of n, 0 <= n < 2^width, in width places
BitsOf(n, width) == [i \in 1..width |-> (n \div 2^(width - i)) % 2]

RECURSIVE BitsToInt(_)
\* the integer that at most 31 binary digits spell
BitsToInt(bits) ==
  IF bits = <<>> THEN 0 ELSE 2 * BitsToInt(SubSeq(bits, 1, Len(bits) - 1)) + bits[Len(bits)]

\* round to nearest, ties to even.  digits spell an exact positive value of which
\* the last digit has exponent ex, and sticky tells whether anything non-zero lies
\* beyond them; at least SIGNIFICAND_BITS + 1 digits follow the first 1.
RoundToNearestEven(digits, ex, sticky) ==
  LET first == CHOOSE i \in 1..Len(digits) :
                 digits[i] = 1 /\ \A j \in 1..(i - 1) : digits[j] = 0
      last == first + SIGNIFICAND_BITS - 1
      kept == SubSeq(digits, first, last)
      keptEx == ex + Len(digits) - last
      half == digits[last + 1] = 1
      beyond == sticky \/ \E i \in (last + 2)..Len(digits) : digits[i] = 1
      up == half /\ (beyond \/ kept[SIGNIFICAND_BITS] = 1)
      zeros == {i \in 1..SIGNIFICAND_BITS : kept[i] = 0}
      carryTo == CHOOSE i \in zeros : \A j \in zeros : j <= i
  IN IF ~up THEN [bits |-> kept, ex |-> keptEx]
     ELSE IF zeros = {}
     THEN [bits |-> [i \in 1..SIGNIFICAND_BITS |-> IF i = 1 THEN 1 ELSE 0],
           ex |-> keptEx + 1]
     ELSE [bits |-> [i \in 1..SIGNIFICAND_BITS |->
                       IF i < carryTo THEN kept[i] ELSE IF i = carryTo THEN 1 ELSE 0],
           ex |-> keptEx]

\* the next ten binary digits of a long division by n, r being the remainder so far
DivideChunk(r, n) == [digits |-> BitsOf((r * 1024) \div n, 10), r |-> (r * 1024) % n]

\* emu / n for integers 0 < emu < 2^31 and 0 < n < 2^20, correctly rounded: the
\* quotient's 31 integer and 80 fractional digits, then the rounding
Divide(emu, n) ==
  LET c1 == DivideChunk(emu % n, n)
      c2 == DivideChunk(c1.r, n)
      c3 == DivideChunk(c2.r, n)
      c4 == DivideChunk(c3.r, n)
      c5 == DivideChunk(c4.r, n)
      c6 == DivideChunk(c5.r, n)
      c7 == DivideChunk(c6.r, n)
      c8 == DivideChunk(c7.r, n)
  IN RoundToNearestEven(
       BitsOf(emu \div n, 31) \o c1.digits \o c2.digits \o c3.digits \o c4.digits
         \o c5.digits \o c6.digits \o c7.digits \o c8.digits,
       -80, c8.r # 0)

\* x * k for a Number x > 0 and an integer 0 < k < 2^13, correctly rounded: the
\* significand in limbs of 16 digits, each multiplied with the carry of the lower
Times(x, k) ==
  LET l4 == BitsToInt(SubSeq(x.bits, 38, 53)) * k
      l3 == BitsToInt(SubSeq(x.bits, 22, 37)) * k + l4 \div 65536
      l2 == BitsToInt(SubSeq(x.bits, 6, 21)) * k + l3 \div 65536
      l1 == BitsToInt(SubSeq(x.bits, 1, 5)) * k + l2 \div 65536
  IN RoundToNearestEven(
       BitsOf(l1, 31) \o BitsOf(l2 % 65536, 16) \o BitsOf(l3 % 65536, 16)
         \o BitsOf(l4 % 65536, 16) \o <<0>>,
       x.ex - 1, FALSE)

\* Math.round of a Number 0 < x < 2^31: the nearest integer, a tie going up
MathRound(x) ==
  LET whole == SIGNIFICAND_BITS + x.ex
  IN IF whole < 0 THEN 0
     ELSE IF whole >= SIGNIFICAND_BITS
     THEN BitsToInt(x.bits \o [i \in 1..x.ex |-> 0])
     ELSE BitsToInt(SubSeq(x.bits, 1, whole)) + x.bits[whole + 1]

\* the mutation of emuToPixels that drops the fraction
emuToPixelsTruncated(emu, dpi) == (emu * dpi) \div EMU_PER_INCH

\* emuToPixels(emu, dpi) = Math.round((emu / EMU_PER_INCH) * dpi), for integers
\* emu >= 0 and dpi > 0
emuToPixels(emu, dpi) ==
  IF emu = 0 THEN 0 ELSE MathRound(Times(Divide(emu, EMU_PER_INCH), dpi))

Max(a, b) == IF a >= b THEN a ELSE b

Min(a, b) == IF a <= b THEN a ELSE b

\* the mutation of MergeDims that keeps the last observation
MergeDimsLastWrite(imageDims, mediaPath, widthPx, heightPx) ==
  [p \in DOMAIN imageDims \cup {mediaPath} |->
     IF p = mediaPath THEN [width |-> widthPx, height |-> heightPx] ELSE imageDims[p]]

\* imageDims.get / imageDims.set with the component-wise maximum
MergeDims(imageDims, mediaPath, widthPx, heightPx) ==
  [p \in DOMAIN imageDims \cup {mediaPath} |->
     IF p # mediaPath THEN imageDims[p]
     ELSE IF mediaPath \in DOMAIN imageDims
     THEN [width |-> Max(imageDims[p].width, widthPx),
           height |-> Max(imageDims[p].height, heightPx)]
     ELSE [width |-> widthPx, height |-> heightPx]]

\* the null result of findExtentInElement / findExtentInAncestors
NoExtent == [cx |-> 0, cy |-> 0]

\* findExtentInElement: the first xfrm/ext of the container with cx > 0 and cy > 0
findExtentInElement(exts) ==
  LET good == SelectSeq(exts, LAMBDA e : e.cx > 0 /\ e.cy > 0)
  IN IF good = <<>> THEN NoExtent ELSE Head(good)

\* findExtentInAncestors: el.up is the number of parentElement steps to the nearest
\* pic / wsp / sp ancestor (0: there is none); at most 10 steps are taken
findExtentInAncestors(el) ==
  IF el.up >= 1 /\ el.up <= 10 THEN findExtentInElement(el.exts) ELSE NoExtent

RECURSIVE extractPptxImageDims(_, _, _, _)
extractPptxImageDims(els, ridToTarget, imageDims, dpi) ==
  IF els = <<>> THEN imageDims
  ELSE LET el == Head(els)
           dims == findExtentInAncestors(el)
           skip == \/ el.local # "blip"
                   \/ el.embed = ""
                   \/ el.embed \notin DOMAIN ridToTarget
                   \/ dims = NoExtent
       IN IF skip THEN extractPptxImageDims(Tail(els), ridToTarget, imageDims, dpi)
          ELSE extractPptxImageDims(Tail(els), ridToTarget,
                 MergeDims(imageDims, ridToTarget[el.embed],
                           emuToPixels(dims.cx, dpi), emuToPixels(dims.cy, dpi)),
                 dpi)

RECURSIVE extractDocxImageDims(_, _, _, _)
extractDocxImageDims(els, ridToTarget, imageDims, dpi) ==
  IF els = <<>> THEN imageDims
  ELSE LET el == Head(els)
           container == el.local = "inline" \/ el.local = "anchor"
           \* the first child named extent, 0/0 when there is none
           extentCx == IF container /\ el.extents # <<>> THEN Head(el.extents).cx ELSE 0
           extentCy == IF container /\ el.extents # <<>> THEN Head(el.extents).cy ELSE 0
           \* the first blip descendant's embed attribute
           rEmbed == IF container /\ el.embeds # <<>> THEN Head(el.embeds) ELSE ""
           skip == \/ ~container
                   \/ extentCx <= 0 \/ extentCy <= 0
                   \/ rEmbed = ""
                   \/ rEmbed \notin DOMAIN ridToTarget
       IN IF skip THEN extractDocxImageDims(Tail(els), ridToTarget, imageDims, dpi)
          ELSE extractDocxImageDims(Tail(els), ridToTarget,
                 MergeDims(imageDims, ridToTarget[rEmbed],
                           emuToPixels(extentCx, dpi), emuToPixels(extentCy, dpi)),
                 dpi)

\* xmlPath -> dir + "/_rels/" + filename + ".rels"
RelsPathOf(xmlPath) ==
  BeforeLast(xmlPath, "/") \o <<"/", "_rels", "/">> \o AfterLast(xmlPath, "/")
  \o <<".", "rels">>

\* /^ppt\/(slides|slideLayouts|slideMasters|notesSlides)\/[^\/]+\.xml$/
IsPptxPart(path) ==
  /\ Len(path) >= 7
  /\ SubSeq(path, 1, 2) = <<"ppt", "/">>
  /\ path[3] \in {"slides", "slideLayouts", "slideMasters", "notesSlides"}
  /\ path[4] = "/"
  /\ \A i \in 5..Len(path) : path[i] # "/"
  /\ EndsWith(path, <<".", "xml">>)

\* /^word\/(document|header\d*|footer\d*)\.xml$/
IsDocxPart(path) ==
  /\ Len(path) = 5
  /\ SubSeq(path, 1, 2) = <<"word", "/">>
  /\ path[3] \in {"document", "header", "header1", "header2", "footer", "footer1"}
  /\ SubSeq(path, 4, 5) = <<".", "xml">>

\* one iteration of the loop over xmlPaths in parsePptxImages / parseDocxImages
ParsePart(z, xmlPath, imageDims, dpi, pptx) ==
  LET relsPath == RelsPathOf(xmlPath)
  IN IF ~ZipHas(z, relsPath) \/ ~ZipHas(z, xmlPath) THEN imageDims
     ELSE LET ridToTarget == parseRels(ZipGet(z, relsPath).text, BeforeLast(xmlPath, "/"))
              els == ZipGet(z, xmlPath).els
          IN IF pptx THEN extractPptxImageDims(els, ridToTarget, imageDims, dpi)
             ELSE extractDocxImageDims(els, ridToTarget, imageDims, dpi)

\* ------------------------------------------------------------ image transcoder
\* What the browser does with one compressImage call: whether loadImage resolves,
\* and the byte size canvas.toBlob hands back per type (0: a null blob).
Envs == [decode : BOOLEAN, webp : 0..MaxSize, jpeg : 0..MaxSize]

Encoded(blob, type, size, w, h) ==
  [kind |-> "blob", origin |-> blob.origin, type |-> type, size |-> size, w |-> w, h |-> h]

\* the mutation of CanvasSize that takes the target as it is
CanvasSizeUnclamped(imageBlob, targetWidth, targetHeight) ==
  [width |-> targetWidth, height |-> targetHeight]

\* finalWidth and finalHeight, the size of the canvas the image is drawn to and
\* encoded from: the target, never larger than the decoded image
CanvasSize(imageBlob, targetWidth, targetHeight) ==
  [width |-> Min(targetWidth, imageBlob.w), height |-> Min(targetHeight, imageBlob.h)]

\* compressImage(imageBlob, targetWidth, targetHeight, quality) under env:
\* threw (loadImage or canvasToBlob rejected), else {blob, wasCompressed}
compressImage(imageBlob, targetWidth, targetHeight, env) ==
  LET finalWidth == CanvasSize(imageBlob, targetWidth, targetHeight).width
      finalHeight == CanvasSize(imageBlob, targetWidth, targetHeight).height
      needsResize == finalWidth < imageBlob.w \/ finalHeight < imageBlob.h
      \* canvas.toBlob yields null for a bitmap without pixels
      webp == IF finalWidth = 0 \/ finalHeight = 0 THEN 0 ELSE env.webp
      jpeg == IF finalWidth = 0 \/ finalHeight = 0 THEN 0 ELSE env.jpeg
      failed(msg) == [threw |-> TRUE, error |-> msg,
                      blob |-> imageBlob, wasCompressed |-> FALSE]
  IN IF ~env.decode THEN failed("Failed to load image")
     ELSE IF webp = 0 THEN failed("Failed to encode as image/webp")
     ELSE IF webp < imageBlob.size
     THEN [threw |-> FALSE, error |-> "", wasCompressed |-> TRUE,
           blob |-> Encoded(imageBlob, "image/webp", webp, finalWidth, finalHeight)]
     ELSE IF needsResize /\ jpeg = 0 THEN failed("Failed to encode as image/jpeg")
     ELSE IF needsResize /\ jpeg < imageBlob.size
     THEN [threw |-> FALSE, error |-> "", wasCompressed |-> TRUE,
           blob |-> Encoded(imageBlob, "image/jpeg", jpeg, finalWidth, finalHeight)]
     ELSE [threw |-> FALSE, error |-> "", blob |-> imageBlob, wasCompressed |-> FALSE]

\* ------------------------------------------------------- ordered Map and Set
MapIndex(m, key) ==
  LET hits == {i \in 1..Len(m) : m[i].key = key}
  IN IF hits = {} THEN 0 ELSE CHOOSE i \in hits : TRUE

MapHas(m, key) == MapIndex(m, key) # 0

MapGet(m, key) == m[MapIndex(m, key)].val

\* Map.prototype.set: a present key keeps its place
MapSet(m, key, val) ==
  IF MapHas(m, key) THEN [m EXCEPT ![MapIndex(m, key)] = [key |-> key, val |-> val]]
  ELSE Append(m, [key |-> key, val |-> val])

MapKeys(m) == {m[i].key : i \in 1..Len(m)}

\* ------------------------------------------------------ relationship patching
RECURSIVE FilenameRenames(_, _)
\* the loop building filenameRenames: old filename -> new filename
FilenameRenames(renamesLeft, acc) ==
  IF renamesLeft = <<>> THEN acc
  ELSE FilenameRenames(Tail(renamesLeft),
         MapSet(acc, AfterLast(Head(renamesLeft).key, "/"),
                     AfterLast(Head(renamesLeft).val, "/")))

RECURSIVE PatchXml(_, _)
\* the loop over filenameRenames on one part's text
PatchXml(xml, fr) ==
  IF fr = <<>> THEN xml
  ELSE PatchXml(IF Includes(xml, Head(fr).key)
                THEN ReplaceAll(xml, Head(fr).key, Head(fr).val)
                ELSE xml,
                Tail(fr))

IsRelsPath(path) == EndsWith(path, <<".", "rels">>)

RECURSIVE PatchRelsFiles(_, _, _)
PatchRelsFiles(z, relsFiles, fr) ==
  IF relsFiles = <<>> THEN z
  ELSE LET relsPath == Head(relsFiles)
           xml == ZipGet(z, relsPath).text
           newXml == PatchXml(xml, fr)
       IN PatchRelsFiles(IF newXml # xml
                         THEN ZipPut(z, relsPath, [kind |-> "text", text |-> newXml])
                         ELSE z,
                         Tail(relsFiles), fr)

\* updateRelationships(zip, renames)
updateRelationships(z, renames) ==
  PatchRelsFiles(z, SelectSeq(ZipPaths(z), IsRelsPath), FilenameRenames(renames, <<>>))

\* ------------------------------------------------------ content-type registrar
CT_PATH == <<"[Content_Types]", ".", "xml">>

\* the mutation of updateContentTypes that inserts the Default without looking
updateContentTypesAlwaysInsert(z, renamedExtensions) ==
  IF ~ZipHas(z, CT_PATH) THEN z
  ELSE ZipPut(z, CT_PATH,
              [kind |-> "ct", defaults |-> <<"webp">> \o ZipGet(z, CT_PATH).defaults,
               form |-> "serialized"])

\* updateContentTypes(zip, renamedExtensions); the part is [kind, defaults, form]:
\* the Extension attributes of its Default children in order, and whether the text
\* is the input's ("source") or XMLSerializer's ("serialized")
updateContentTypes(z, renamedExtensions) ==
  IF ~ZipHas(z, CT_PATH) THEN z
  ELSE LET defaults == ZipGet(z, CT_PATH).defaults
           hasWebp == \E i \in 1..Len(defaults) : ToLowerTok(defaults[i]) = "webp"
           newDefaults == IF ~hasWebp /\ renamedExtensions # {}
                          THEN <<"webp">> \o defaults ELSE defaults
       IN ZipPut(z, CT_PATH,
                 [kind |-> "ct", defaults |-> newDefaults, form |-> "serialized"])

\* ------------------------------------------------------------ processDocument
\* One activation of processDocument is a record d:
\*   file, dpi, owner      the arguments (owner: the id onProgress reports to)
\*   pc                    "called", "parsing", "transcoding", "patched", "done", "failed"
\*   zip, isPptx, imageDims, xmlPaths, xi, mediaFiles, total, processed,
\*   imagesCompressed, renames, renamedExtensions      the locals
\*   result, error         what the promise settles with
\*   progressLog           the onProgress calls made so far, as <<current, total>>
\*   transcodeLog          one record per compressImage call that returned
NewCall(f, dp, owner) ==
  [file |-> f, dpi |-> dp, owner |-> owner, pc |-> "called",
   zip |-> <<>>, isPptx |-> FALSE, imageDims |-> <<>>, xmlPaths |-> <<>>, xi |-> 0,
   mediaFiles |-> <<>>, total |-> 0, processed |-> 0, imagesCompressed |-> 0,
   renames |-> <<>>, renamedExtensions |-> {},
   result |-> <<>>, error |-> "",
   progressLog |-> <<>>, transcodeLog |-> <<>>]

\* isRasterImage(path)
isRasterImage(path) == ExtOf(path) \in RASTER_EXTENSIONS

MediaPrefix(pptx) ==
  IF pptx THEN <<"ppt", "/", "media", "/">> ELSE <<"word", "/", "media", "/">>

NameIsPptx(name) == EndsWith(ToLower(name), <<".", "pptx">>)

NameIsDocx(name) == EndsWith(ToLower(name), <<".", "docx">>)

Throw(d, msg) == [d EXCEPT !.pc = "failed", !.error = msg]

\* the mutation of LoadStep that takes every name that is no .pptx for a .docx
LoadStepNoTypeCheck(d) ==
  IF ~d.file.valid THEN Throw(d, "Corrupted zip")
  ELSE LET pptx == NameIsPptx(d.file.name)
       IN [d EXCEPT !.zip = d.file.zip,
                    !.isPptx = pptx,
                    !.xmlPaths = IF pptx THEN SelectSeq(ZipPaths(d.file.zip), IsPptxPart)
                                 ELSE SelectSeq(ZipPaths(d.file.zip), IsDocxPart),
                    !.pc = "parsing"]

\* lines 46-68 up to the first await of the parser: load the archive, check the
\* file type, collect the XML parts to scan
LoadStep(d) ==
  IF ~d.file.valid THEN Throw(d, "Corrupted zip")
  ELSE IF ~NameIsPptx(d.file.name) /\ ~NameIsDocx(d.file.name)
  THEN Throw([d EXCEPT !.zip = d.file.zip], "Unsupported file type")
  ELSE LET pptx == NameIsPptx(d.file.name)
       IN [d EXCEPT !.zip = d.file.zip,
                    !.isPptx = pptx,
                    !.xmlPaths = IF pptx THEN SelectSeq(ZipPaths(d.file.zip), IsPptxPart)
                                 ELSE SelectSeq(ZipPaths(d.file.zip), IsDocxPart),
                    !.pc = "parsing"]

\* one iteration of the parser's loop over xmlPaths
ParseStep(d) ==
  [d EXCEPT !.xi = d.xi + 1,
            !.imageDims = ParsePart(d.zip, d.xmlPaths[d.xi + 1], d.imageDims,
                                    d.dpi, d.isPptx)]

\* the mutation of EnumerateStep that takes every entry of the media directory
EnumerateStepAllMedia(d) ==
  LET prefix == MediaPrefix(d.isPptx)
      IsMedia(path) == StartsWith(path, prefix)
      mediaFiles == SelectSeq(ZipPaths(d.zip), IsMedia)
  IN [d EXCEPT !.mediaFiles = mediaFiles,
               !.total = Len(mediaFiles),
               !.progressLog = Append(d.progressLog, <<0, Len(mediaFiles)>>),
               !.pc = "transcoding"]

\* lines 61-78: enumerate the raster media entries and report (0, total)
EnumerateStep(d) ==
  LET prefix == MediaPrefix(d.isPptx)
      IsMedia(path) == StartsWith(path, prefix) /\ isRasterImage(path)
      mediaFiles == SelectSeq(ZipPaths(d.zip), IsMedia)
  IN [d EXCEPT !.mediaFiles = mediaFiles,
               !.total = Len(mediaFiles),
               !.progressLog = Append(d.progressLog, <<0, Len(mediaFiles)>>),
               !.pc = "transcoding"]

\* the target dimensions of lines 92-96
TargetDims(d, mediaPath) ==
  IF mediaPath \in DOMAIN d.imageDims THEN d.imageDims[mediaPath]
  ELSE [width |-> SENTINEL, height |-> SENTINEL]

\* the mutation of TranscodeStep that records a rename for every adopted output
TranscodeStepAlwaysRename(d, env) ==
  LET mediaPath == d.mediaFiles[d.processed + 1]
      dims == TargetDims(d, mediaPath)
      originalBlob == ZipGet(d.zip, mediaPath)
      r == compressImage(originalBlob, dims.width, dims.height, env)
      newExt == IF r.blob.type = "image/webp" THEN "webp" ELSE "jpeg"
      newPath == ReplaceExt(mediaPath, newExt)
      logged == Append(d.transcodeLog,
                  [path |-> mediaPath, input |-> originalBlob, output |-> r.blob,
                   wasCompressed |-> r.wasCompressed, newPath |-> newPath,
                   width |-> dims.width, height |-> dims.height])
      counted == [d EXCEPT !.processed = d.processed + 1,
                           !.progressLog = Append(d.progressLog,
                                                  <<d.processed + 1, d.total>>)]
  IN IF r.threw THEN Throw(d, r.error)
     ELSE IF r.wasCompressed
     THEN [counted EXCEPT
             !.imagesCompressed = d.imagesCompressed + 1,
             !.zip = ZipPut(ZipRemove(d.zip, mediaPath), newPath, r.blob),
             !.renames = MapSet(d.renames, mediaPath, newPath),
             !.renamedExtensions = d.renamedExtensions \cup {ExtOf(mediaPath)},
             !.transcodeLog = logged]
     ELSE [counted EXCEPT !.transcodeLog = logged]

\* the mutation of TranscodeStep that forgets to count an entry left as it was
TranscodeStepNoCount(d, env) ==
  LET mediaPath == d.mediaFiles[d.processed + 1]
      dims == TargetDims(d, mediaPath)
      originalBlob == ZipGet(d.zip, mediaPath)
      r == compressImage(originalBlob, dims.width, dims.height, env)
      newExt == IF r.blob.type = "image/webp" THEN "webp" ELSE "jpeg"
      newPath == ReplaceExt(mediaPath, newExt)
      logged == Append(d.transcodeLog,
                  [path |-> mediaPath, input |-> originalBlob, output |-> r.blob,
                   wasCompressed |-> r.wasCompressed, newPath |-> newPath,
                   width |-> dims.width, height |-> dims.height])
      counted == [d EXCEPT !.processed = d.processed + 1,
                           !.progressLog = Append(d.progressLog,
                                                  <<d.processed + 1, d.total>>)]
  IN IF r.threw THEN Throw(d, r.error)
     ELSE IF r.wasCompressed
     THEN [counted EXCEPT
             !.imagesCompressed = d.imagesCompressed + 1,
             !.zip = ZipPut(ZipRemove(d.zip, mediaPath), newPath, r.blob),
             !.renames = IF newPath # mediaPath
                         THEN MapSet(d.renames, mediaPath, newPath) ELSE d.renames,
             !.renamedExtensions = IF newPath # mediaPath
                                   THEN d.renamedExtensions \cup {ExtOf(mediaPath)}
                                   ELSE d.renamedExtensions,
             !.transcodeLog = logged]
     ELSE [d EXCEPT !.processed = d.processed + 1, !.transcodeLog = logged]

\* the mutation of TranscodeStep that swallows a transcoder failure and goes on
TranscodeStepSkipFailed(d, env) ==
  LET mediaPath == d.mediaFiles[d.processed + 1]
      dims == TargetDims(d, mediaPath)
      originalBlob == ZipGet(d.zip, mediaPath)
      r == compressImage(originalBlob, dims.width, dims.height, env)
      newExt == IF r.blob.type = "image/webp" THEN "webp" ELSE "jpeg"
      newPath == ReplaceExt(mediaPath, newExt)
      logged == Append(d.transcodeLog,
                  [path |-> mediaPath, input |-> originalBlob, output |-> r.blob,
                   wasCompressed |-> r.wasCompressed, newPath |-> newPath,
                   width |-> dims.width, height |-> dims.height])
      counted == [d EXCEPT !.processed = d.processed + 1,
                           !.progressLog = Append(d.progressLog,
                                                  <<d.processed + 1, d.total>>)]
  IN IF r.threw THEN [counted EXCEPT !.error = r.error]
     ELSE IF r.wasCompressed
     THEN [counted EXCEPT
             !.imagesCompressed = d.imagesCompressed + 1,
             !.zip = ZipPut(ZipRemove(d.zip, mediaPath), newPath, r.blob),
             !.renames = IF newPath # mediaPath
                         THEN MapSet(d.renames, mediaPath, newPath) ELSE d.renames,
             !.renamedExtensions = IF newPath # mediaPath
                                   THEN d.renamedExtensions \cup {ExtOf(mediaPath)}
                                   ELSE d.renamedExtensions,
             !.transcodeLog = logged]
     ELSE [counted EXCEPT !.transcodeLog = logged]

\* lines 81-127: one iteration of the loop over mediaFiles, the browser answering
\* the compressImage call with env
TranscodeStep(d, env) ==
  LET mediaPath == d.mediaFiles[d.processed + 1]
      counted == [d EXCEPT !.processed = d.processed + 1,
                           !.progressLog = Append(d.progressLog,
                                                  <<d.processed + 1, d.total>>)]
  IN IF ~ZipHas(d.zip, mediaPath) THEN counted
     ELSE
  LET dims == TargetDims(d, mediaPath)
      originalBlob == ZipGet(d.zip, mediaPath)
      r == compressImage(originalBlob, dims.width, dims.height, env)
      newExt == IF r.blob.type = "image/webp" THEN "webp" ELSE "jpeg"
      newPath == ReplaceExt(mediaPath, newExt)
      logged == Append(d.transcodeLog,
                  [path |-> mediaPath, input |-> originalBlob, output |-> r.blob,
                   wasCompressed |-> r.wasCompressed, newPath |-> newPath,
                   width |-> dims.width, height |-> dims.height])
  IN IF r.threw THEN Throw(d, r.error)
     ELSE IF r.wasCompressed
     THEN [counted EXCEPT
             !.imagesCompressed = d.imagesCompressed + 1,
             !.zip = ZipPut(ZipRemove(d.zip, mediaPath), newPath, r.blob),
             !.renames = IF newPath # mediaPath
                         THEN MapSet(d.renames, mediaPath, newPath) ELSE d.renames,
             !.renamedExtensions = IF newPath # mediaPath
                                   THEN d.renamedExtensions \cup {ExtOf(mediaPath)}
                                   ELSE d.renamedExtensions,
             !.transcodeLog = logged]
     ELSE [counted EXCEPT !.transcodeLog = logged]

\* lines 129-133, taken when renames.size > 0
PatchStep(d) ==
  [d EXCEPT !.zip = updateContentTypes(updateRelationships(d.zip, d.renames),
                                       d.renamedExtensions),
            !.pc = "patched"]

\* file.name.replace(/(\.[^.]+)$/, "_compressed$1")
CompressedFilename(name) ==
  LET dot == LastIndexOf(name, ".")
  IN IF dot = 0 \/ dot = Len(name) THEN name
     ELSE SubSeq(name, 1, dot - 1) \o <<"_compressed">> \o SubSeq(name, dot, Len(name))

\* the mutation of SerializeStep that reports every entry as compressed
SerializeStepReportsTotal(d) ==
  [d EXCEPT !.pc = "done",
            !.result = <<[blob |-> d.zip,
                          stats |-> [imagesProcessed |-> d.total,
                                     imagesTotal |-> d.total],
                          filename |-> CompressedFilename(d.file.name)]>>]

\* lines 135-152: serialize the archive and return
SerializeStep(d) ==
  [d EXCEPT !.pc = "done",
            !.result = <<[blob |-> d.zip,
                          stats |-> [imagesProcessed |-> d.imagesCompressed,
                                     imagesTotal |-> d.total],
                          filename |-> CompressedFilename(d.file.name)]>>]

\* ------------------------------------------------------------------- state
VARIABLES
  tasks,            \* the compressAll activations in flight, each [snap, i, d]:
                    \* the pending entries it took, the index of the one being
                    \* processed, and its processDocument activation d; in the
                    \* specifications of one function (emuToPixels, resolvePath,
                    \* updateContentTypes) the activation of that function
  entries,          \* file-list.ts: let entries
  isProcessing,     \* main.ts: let isProcessing
  compressEnabled,  \* whether #compress-btn is enabled
  nextId            \* the number of ids created so far, plus one

vars == <<tasks, entries, isProcessing, compressEnabled, nextId>>

\* ------------------------------------------------------------------ file list
\* updateEntry(id, update)
updateEntry(es, id, update) ==
  [i \in 1..Len(es) |->
     IF es[i].id = id
     THEN [f \in DOMAIN es[i] |-> IF f \in DOMAIN update THEN update[f] ELSE es[i][f]]
     ELSE es[i]]

\* removeEntry(id)
removeEntry(es, id) == SelectSeq(es, LAMBDA e : e.id # id)

\* addFiles(files): ids are fresh, first being the first id
addFiles(es, files, first) ==
  es \o [i \in 1..Len(files) |->
           [id |-> first + i - 1, file |-> files[i], status |-> "pending",
            progress |-> 0, result |-> <<>>, error |-> ""]]

\* the onProgress callback compressAll passes: Math.round((current / total) * 100)
ProgressCallback(es, id, current, total) ==
  updateEntry(es, id,
    [progress |-> IF total > 0 THEN (200 * current + total) \div (2 * total) ELSE 100])

LastProgress(d) == d.progressLog[Len(d.progressLog)]

\* ------------------------------------------------- actions of processDocument
SetCall(t, d) == tasks' = [tasks EXCEPT ![t].d = d]

PD_Load ==
  \E t \in 1..Len(tasks) :
    /\ tasks[t].d.pc = "called"
    /\ SetCall(t, LoadStep(tasks[t].d))
    /\ UNCHANGED <<entries, isProcessing, compressEnabled, nextId>>

PD_Parse ==
  \E t \in 1..Len(tasks) :
    /\ tasks[t].d.pc = "parsing"
    /\ tasks[t].d.xi < Len(tasks[t].d.xmlPaths)
    /\ SetCall(t, ParseStep(tasks[t].d))
    /\ UNCHANGED <<entries, isProcessing, compressEnabled, nextId>>

PD_Enumerate ==
  \E t \in 1..Len(tasks) :
    /\ tasks[t].d.pc = "parsing"
    /\ tasks[t].d.xi = Len(tasks[t].d.xmlPaths)
    /\ LET d == EnumerateStep(tasks[t].d)
       IN /\ SetCall(t, d)
          /\ entries' = ProgressCallback(entries, d.owner, 0, d.total)
    /\ UNCHANGED <<isProcessing, compressEnabled, nextId>>

PD_Transcode ==
  \E t \in 1..Len(tasks) :
    /\ tasks[t].d.pc = "transcoding"
    /\ tasks[t].d.processed < tasks[t].d.total
    /\ \E env \in Envs :
         LET d == TranscodeStep(tasks[t].d, env)
         IN /\ d.pc = "transcoding"
            /\ SetCall(t, d)
            /\ entries' = IF Len(d.progressLog) > Len(tasks[t].d.progressLog)
                          THEN ProgressCallback(entries, d.owner,
                                                LastProgress(d)[1], LastProgress(d)[2])
                          ELSE entries
    /\ UNCHANGED <<isProcessing, compressEnabled, nextId>>

PD_TranscodeFail ==
  \E t \in 1..Len(tasks) :
    /\ tasks[t].d.pc = "transcoding"
    /\ tasks[t].d.processed < tasks[t].d.total
    /\ \E env \in Envs :
         LET d == TranscodeStep(tasks[t].d, env)
         IN /\ d.pc = "failed"
            /\ SetCall(t, d)
    /\ UNCHANGED <<entries, isProcessing, compressEnabled, nextId>>

\* the mutation of PD_Patch that patches as soon as a rename is recorded
PD_PatchEarly ==
  \E t \in 1..Len(tasks) :
    /\ tasks[t].d.pc = "transcoding"
    /\ tasks[t].d.renames # <<>>
    /\ SetCall(t, PatchStep(tasks[t].d))
    /\ UNCHANGED <<entries, isProcessing, compressEnabled, nextId>>

PD_Patch ==
  \E t \in 1..Len(tasks) :
    /\ tasks[t].d.pc = "transcoding"
    /\ tasks[t].d.processed = tasks[t].d.total
    /\ tasks[t].d.renames # <<>>
    /\ SetCall(t, PatchStep(tasks[t].d))
    /\ UNCHANGED <<entries, isProcessing, compressEnabled, nextId>>

PD_Serialize ==
  \E t \in 1..Len(tasks) :
    /\ \/ tasks[t].d.pc = "patched"
       \/ /\ tasks[t].d.pc = "transcoding"
          /\ tasks[t].d.processed = tasks[t].d.total
          /\ tasks[t].d.renames = <<>>
    /\ SetCall(t, SerializeStep(tasks[t].d))
    /\ UNCHANGED <<entries, isProcessing, compressEnabled, nextId>>

NextDoc ==
  \/ PD_Load
  \/ PD_Parse
  \/ PD_Enumerate
  \/ PD_Transcode
  \/ PD_TranscodeFail
  \/ PD_Patch
  \/ PD_Serialize

\* ------------------------------------------------------ compressAll (main.ts)
\* the mutation of Busy that lets a second compressAll run beside the first
BusyIgnored(processing) == FALSE

\* if (isProcessing) return
Busy(processing) == processing

Pending(es) == SelectSeq(es, LAMBDA e : e.status = "pending")

\* the start of one loop iteration, lines 43-47: mark the entry and call
\* processDocument on its file
StartEntry(es, snap, i) ==
  [entries |-> updateEntry(es, snap[i].id, [status |-> "processing", progress |-> 0]),
   task |-> [snap |-> snap, i |-> i, d |-> NewCall(snap[i].file, DefaultDpi, snap[i].id)]]

\* what follows the try/catch of iteration T.i, the list being es: the next
\* iteration, or lines 69-74 when the loop is over.  task is <<>> when it is over.
ContinueBatch(T, es) ==
  IF T.i < Len(T.snap)
  THEN LET n == StartEntry(es, T.snap, T.i + 1)
       IN [task |-> <<n.task>>, entries |-> n.entries, over |-> FALSE]
  ELSE [task |-> <<>>, entries |-> es, over |-> TRUE]

\* lines 58-62: processDocument returned
ThenStep(T, es) ==
  ContinueBatch(T, updateEntry(es, T.snap[T.i].id,
                               [status |-> "done", progress |-> 100, result |-> T.d.result]))

\* the mutation of CatchStep without the try/catch: the rejection ends compressAll
CatchStepRethrow(T, es) == [task |-> <<>>, entries |-> es, over |-> FALSE]

\* lines 63-66: processDocument threw
CatchStep(T, es) ==
  ContinueBatch(T, updateEntry(es, T.snap[T.i].id,
                               [status |-> "error", error |-> T.d.error]))

ReplaceTask(ts, t, new) == SubSeq(ts, 1, t - 1) \o new \o SubSeq(ts, t + 1, Len(ts))

Settle(t, r) ==
  /\ tasks' = ReplaceTask(tasks, t, r.task)
  /\ entries' = r.entries
  /\ isProcessing' = IF r.over THEN FALSE ELSE isProcessing
  /\ compressEnabled' = IF r.over /\ Pending(r.entries) # <<>> THEN TRUE
                        ELSE compressEnabled
  /\ UNCHANGED nextId

\* a click on #compress-btn: compressAll up to its first await
ClickCompress ==
  /\ compressEnabled
  /\ Len(tasks) < MaxTasks
  /\ IF Busy(isProcessing) \/ Pending(entries) = <<>>
     THEN UNCHANGED vars
     ELSE LET n == StartEntry(entries, Pending(entries), 1)
          IN /\ tasks' = Append(tasks, n.task)
             /\ entries' = n.entries
             /\ isProcessing' = TRUE
             /\ compressEnabled' = FALSE
             /\ UNCHANGED nextId

EntryDone ==
  \E t \in 1..Len(tasks) :
    /\ tasks[t].d.pc = "done"
    /\ Settle(t, ThenStep(tasks[t], entries))

EntryError ==
  \E t \in 1..Len(tasks) :
    /\ tasks[t].d.pc = "failed"
    /\ Settle(t, CatchStep(tasks[t], entries))

\* --------------------------------------------------------------- the inputs
\* Archives are built from their parts; every family below is a set of
\* [file, dpi] arguments of processDocument.
OrigBlob(path) ==
  [kind |-> "blob", origin |-> path, type |-> "orig", size |-> OrigSize,
   w |-> NaturalWidth, h |-> NaturalHeight]

MediaEntries(prefix, names) ==
  [i \in 1..Len(names) |-> [path |-> prefix \o names[i], data |-> OrigBlob(prefix \o names[i])]]

CtEntry(defaults) ==
  [path |-> CT_PATH, data |-> [kind |-> "ct", defaults |-> defaults, form |-> "source"]]

PartEntries(xmlPath, els, rels) ==
  <<[path |-> xmlPath, data |-> [kind |-> "xml", els |-> els]],
    [path |-> RelsPathOf(xmlPath), data |-> [kind |-> "text", text |-> RelsText(rels)]]>>

Blip(embed, ext) == [local |-> "blip", embed |-> embed, up |-> 2, exts |-> <<ext>>]

Drawing(embed, ext) == [local |-> "inline", extents |-> <<ext>>, embeds |-> <<embed>>]

RIds == <<"rId1", "rId2", "rId3", "rId4", "rId5", "rId6">>

\* "../media/" + filename, the form Office writes in a slide's rels
RelTarget(fn) == <<".", ".", "/", "media", "/">> \o fn

\* "media/" + filename, the form Office writes in word/_rels/document.xml.rels
DocxTarget(fn) == <<"media", "/">> \o fn

Slide1 == <<"ppt", "/", "slides", "/", "slide1", ".", "xml">>
Slide2 == <<"ppt", "/", "slides", "/", "slide2", ".", "xml">>
Document == <<"word", "/", "document", ".", "xml">>
Header1 == <<"word", "/", "header1", ".", "xml">>

A_PNG == <<"a", ".", "png">>
AA_PNG == <<"a", "a", ".", "png">>
A0_PNG == <<"a", "0", ".", "png">>
A_JPEG == <<"a", ".", "jpeg">>
A_WEBP == <<"a", ".", "webp">>
A_UPPER == <<"a", ".", "PNG">>

DeckPptx == <<"deck", ".", "pptx">>
MemoDocx == <<"memo", ".", "docx">>

\* cx, cy in EMU: one inch square, and two rectangles neither of which covers the other
SmallExt == [cx |-> 914400, cy |-> 914400]
WideExt == [cx |-> 1828800, cy |-> 914400]
TallExt == [cx |-> 914400, cy |-> 1828800]
BigExt == [cx |-> 3657600, cy |-> 3657600]
ZeroExt == [cx |-> 0, cy |-> 0]

InjectiveSeqs(S, n) ==
  {s \in UNION {[1..k -> S] : k \in 1..n} : \A i, j \in 1..Len(s) : i # j => s[i] # s[j]}

SeqsUpTo(S, n) == UNION {[1..k -> S] : k \in 1..n}

\* media family: a presentation whose one slide shows every media entry at one
\* inch square (or shows none of them), for every order of up to MaxMedia entries
MediaPool == {A_PNG, AA_PNG, A_JPEG, A_WEBP, A_UPPER}

RECURSIVE DistinctExts(_, _)
DistinctExts(names, acc) ==
  IF names = <<>> THEN acc
  ELSE LET ext == ExtOf(Head(names))[1]
       IN DistinctExts(Tail(names),
            IF \E i \in 1..Len(acc) : acc[i] = ext THEN acc ELSE Append(acc, ext))

\* the Default extensions of a well-formed package holding the media names: one per
\* extension in use, with or without a WEBP entry already there
CtChoices(names) ==
  LET used == DistinctExts(names, <<"xml">>)
  IN {used} \cup (IF \E i \in 1..Len(used) : used[i] = "webp" THEN {}
                  ELSE {used \o <<"WEBP">>})

MediaFamily ==
  {[dpi |-> 96,
    file |-> [name |-> DeckPptx, valid |-> TRUE,
              zip |-> <<CtEntry(a.ct)>>
                      \o PartEntries(Slide1,
                           IF a.shown
                           THEN [i \in 1..Len(a.names) |-> Blip(RIds[i], SmallExt)]
                           ELSE <<>>,
                           [i \in 1..Len(a.names) |->
                              [id |-> RIds[i], target |-> RelTarget(a.names[i])]])
                      \o MediaEntries(MediaPrefix(TRUE), a.names)]] :
     a \in UNION {{[names |-> names, ct |-> ct, shown |-> shown] :
                     ct \in CtChoices(names), shown \in BOOLEAN} :
                  names \in InjectiveSeqs(MediaPool, MaxMedia)}}

\* rels family: a presentation with a.png and aa.png whose slide's relationships
\* point at any of a few targets
TargetPool ==
  {RelTarget(A_PNG), RelTarget(AA_PNG), RelTarget(A0_PNG),
   <<"/", "ppt", "/", "media", "/">> \o A_PNG}

RelsFamily ==
  {[dpi |-> 150,
    file |-> [name |-> DeckPptx, valid |-> TRUE,
              zip |-> <<CtEntry(<<"xml", "png">>)>>
                      \o PartEntries(Slide1,
                           [i \in 1..Len(targets) |-> Blip(RIds[i], SmallExt)],
                           [i \in 1..Len(targets) |->
                              [id |-> RIds[i], target |-> targets[i]]])
                      \o MediaEntries(MediaPrefix(TRUE), <<A_PNG, AA_PNG>>)]] :
     targets \in SeqsUpTo(TargetPool, MaxTargets)}

\* dimension family: two parts sharing a.png (rId1) and aa.png (rId2); the
\* observations obs[1..k] lie in the first part and the rest in the second
ObsPool ==
  {[embed |-> "rId1", ext |-> WideExt], [embed |-> "rId1", ext |-> TallExt],
   [embed |-> "rId2", ext |-> BigExt], [embed |-> "rId9", ext |-> BigExt],
   [embed |-> "rId1", ext |-> ZeroExt]}

DimsPptx(obs, k) ==
  [dpi |-> 96,
   file |-> [name |-> DeckPptx, valid |-> TRUE,
             zip |-> <<CtEntry(<<"xml", "png">>)>>
                     \o PartEntries(Slide1,
                          [i \in 1..k |-> Blip(obs[i].embed, obs[i].ext)],
                          <<[id |-> "rId1", target |-> RelTarget(A_PNG)],
                            [id |-> "rId2", target |-> RelTarget(AA_PNG)]>>)
                     \o PartEntries(Slide2,
                          [i \in 1..(Len(obs) - k) |-> Blip(obs[k + i].embed, obs[k + i].ext)],
                          <<[id |-> "rId1", target |-> RelTarget(A_PNG)],
                            [id |-> "rId2", target |-> RelTarget(AA_PNG)]>>)
                     \o MediaEntries(MediaPrefix(TRUE), <<A_PNG>>)]]

DimsDocx(obs, k) ==
  [dpi |-> 150,
   file |-> [name |-> MemoDocx, valid |-> TRUE,
             zip |-> <<CtEntry(<<"xml", "png">>)>>
                     \o PartEntries(Document,
                          [i \in 1..k |-> Drawing(obs[i].embed, obs[i].ext)],
                          <<[id |-> "rId1", target |-> DocxTarget(A_PNG)],
                            [id |-> "rId2", target |-> DocxTarget(AA_PNG)]>>)
                     \o PartEntries(Header1,
                          [i \in 1..(Len(obs) - k) |->
                             Drawing(obs[k + i].embed, obs[k + i].ext)],
                          <<[id |-> "rId1", target |-> DocxTarget(A_PNG)],
                            [id |-> "rId2", target |-> DocxTarget(AA_PNG)]>>)
                     \o MediaEntries(MediaPrefix(FALSE), <<A_PNG>>)]]

DimsFamily ==
  UNION {{DimsPptx(obs, k), DimsDocx(obs, k)} :
           <<obs, k>> \in {<<o, j>> \in SeqsUpTo(ObsPool, MaxObs) \X (0..MaxObs) :
                             j <= Len(o)}}

\* file-type family: every name with valid and with invalid bytes
NamePool ==
  {DeckPptx, <<"deck", ".", "PPTX">>, MemoDocx, <<"notes", ".", "txt">>,
   <<"deck", ".", "pptx", ".", "bak">>, <<"pptx">>}

TypesFamily ==
  {[dpi |-> 300,
    file |-> [name |-> name, valid |-> valid,
              zip |-> IF valid
                      THEN <<CtEntry(<<"xml", "png">>)>>
                           \o PartEntries(Slide1, <<Blip("rId1", SmallExt)>>,
                                <<[id |-> "rId1", target |-> RelTarget(A_PNG)]>>)
                           \o MediaEntries(MediaPrefix(TRUE), <<A_PNG>>)
                      ELSE <<>>]] :
     name \in NamePool, valid \in BOOLEAN}

\* picture family: a presentation whose one slide shows ppt/media/image1.png at
\* 5 x 3.75 inches (cx = 4572000, cy = 3429000), at each DPI preset
IMAGE1_PNG == <<"image1", ".", "png">>
PictureExt == [cx |-> 5 * EMU_PER_INCH, cy |-> 15 * (EMU_PER_INCH \div 4)]

PictureDeck ==
  [name |-> DeckPptx, valid |-> TRUE,
   zip |-> <<CtEntry(<<"xml", "png">>)>>
           \o PartEntries(Slide1, <<Blip("rId1", PictureExt)>>,
                <<[id |-> "rId1", target |-> RelTarget(IMAGE1_PNG)]>>)
           \o MediaEntries(MediaPrefix(TRUE), <<IMAGE1_PNG>>)]

PictureFamily == {[dpi |-> dp, file |-> PictureDeck] : dp \in DPI_OPTIONS}

\* mixed family: a word-processing document whose word/media holds vector images,
\* fonts, WebP images and at most raster ones, each shown at 1 inch, beside a
\* thumbnail outside the media directory
A_EMF == <<"a", ".", "emf">>
FONT_ODTTF == <<"font1", ".", "odttf">>
THUMBNAIL == <<"docProps", "/", "thumbnail", ".", "jpeg">>

MixedFamily ==
  {[dpi |-> 96,
    file |-> [name |-> MemoDocx, valid |-> TRUE,
              zip |-> <<CtEntry(DistinctExts(names, <<"xml", "jpeg">>))>>
                      \o PartEntries(Document,
                           [i \in 1..Len(names) |-> Drawing(RIds[i], SmallExt)],
                           [i \in 1..Len(names) |->
                              [id |-> RIds[i], target |-> DocxTarget(names[i])]])
                      \o <<[path |-> THUMBNAIL, data |-> OrigBlob(THUMBNAIL)]>>
                      \o MediaEntries(MediaPrefix(FALSE), names)]] :
     names \in InjectiveSeqs({A_EMF, FONT_ODTTF, A_WEBP, A_PNG}, MaxMedia)}

\* bare family: a presentation and a document whose one part shows an image at
\* 4 inches square and has no relationships part beside it
BareFamily ==
  {[dpi |-> 96,
    file |-> [name |-> DeckPptx, valid |-> TRUE,
              zip |-> <<CtEntry(<<"xml", "png", "jpeg">>),
                        PartEntries(Slide1, <<Blip("rId1", BigExt)>>, <<>>)[1]>>
                      \o MediaEntries(MediaPrefix(TRUE), <<A_PNG, A_JPEG>>)]],
   [dpi |-> 96,
    file |-> [name |-> MemoDocx, valid |-> TRUE,
              zip |-> <<CtEntry(<<"xml", "png", "jpeg">>),
                        PartEntries(Document, <<Drawing("rId1", BigExt)>>, <<>>)[1]>>
                      \o MediaEntries(MediaPrefix(FALSE), <<A_PNG, A_JPEG>>)]]}

DocInputs ==
  MediaFamily \cup RelsFamily \cup DimsFamily \cup TypesFamily \cup PictureFamily
  \cup MixedFamily \cup BareFamily

\* ------------------------------------------------------------ specifications
\* one direct call of processDocument, its onProgress reporting to no list entry
InitDoc ==
  /\ tasks \in {<<[snap |-> <<>>, i |-> 0, d |-> NewCall(a.file, a.dpi, 0)]>> :
                  a \in DocInputs}
  /\ entries = <<>>
  /\ isProcessing = FALSE
  /\ compressEnabled = FALSE
  /\ nextId = 1

SpecDoc == InitDoc /\ [][NextDoc]_vars

\* the files a user drops in the batch runs: a presentation with one image shown
\* larger than its native size, and a
\* file of an accepted MIME type named notes.txt
BatchFiles ==
  {[name |-> DeckPptx, valid |-> TRUE,
    zip |-> <<CtEntry(<<"xml", "png">>)>>
            \o PartEntries(Slide1, <<Blip("rId1", BigExt)>>,
                 <<[id |-> "rId1", target |-> RelTarget(A_PNG)]>>)
            \o MediaEntries(MediaPrefix(TRUE), <<A_PNG>>)],
   [name |-> <<"notes", ".", "txt">>, valid |-> TRUE, zip |-> <<>>]}

\* the dropzone's onFilesAdded: addFiles(files); setCompressEnabled(true)
AddFiles ==
  \E files \in SeqsUpTo(BatchFiles, 2) :
    /\ nextId + Len(files) - 1 <= MaxFiles
    /\ entries' = addFiles(entries, files, nextId)
    /\ nextId' = nextId + Len(files)
    /\ compressEnabled' = TRUE
    /\ UNCHANGED <<tasks, isProcessing>>

\* a click on an entry's remove button
RemoveEntry ==
  \E i \in 1..Len(entries) :
    /\ entries' = removeEntry(entries, entries[i].id)
    /\ UNCHANGED <<tasks, isProcessing, compressEnabled, nextId>>

\* a click on #clear-all-btn, rendered when an entry is done with a result
ClearAll ==
  /\ \E i \in 1..Len(entries) : entries[i].status = "done" /\ entries[i].result # <<>>
  /\ entries' = <<>>
  /\ UNCHANGED <<tasks, isProcessing, compressEnabled, nextId>>

InitBatch ==
  /\ tasks = <<>>
  /\ entries = <<>>
  /\ isProcessing = FALSE
  /\ compressEnabled = FALSE
  /\ nextId = 1

NextBatch ==
  \/ AddFiles
  \/ ClickCompress
  \/ EntryDone
  \/ EntryError
  \/ RemoveEntry
  \/ ClearAll
  \/ PD_Load
  \/ PD_Parse
  \/ PD_Enumerate
  \/ PD_Transcode
  \/ PD_TranscodeFail
  \/ PD_Patch
  \/ PD_Serialize

SpecBatch == InitBatch /\ [][NextBatch]_vars

\* ------------------------------------------------- emuToPixels on its own
\* extents in steps of 1/300 inch, and the extents of a 5 x 3.75 inch picture
EmuInputs ==
  {k * (EMU_PER_INCH \div 300) : k \in 0..MaxEmuSteps}
  \cup {EMU_PER_INCH, 5 * EMU_PER_INCH, 15 * (EMU_PER_INCH \div 4)}

InitEmu ==
  /\ tasks \in {<<[fn |-> "emuToPixels", emu |-> e, dpi |-> dp, pc |-> "called", ret |-> 0]>> :
                  e \in EmuInputs, dp \in DPI_OPTIONS}
  /\ entries = <<>>
  /\ isProcessing = FALSE
  /\ compressEnabled = FALSE
  /\ nextId = 1

EP_Return ==
  \E t \in 1..Len(tasks) :
    /\ tasks[t].pc = "called"
    /\ tasks' = [tasks EXCEPT ![t].ret = emuToPixels(tasks[t].emu, tasks[t].dpi),
                              ![t].pc = "returned"]
    /\ UNCHANGED <<entries, isProcessing, compressEnabled, nextId>>

NextEmu == EP_Return

SpecEmu == InitEmu /\ [][NextEmu]_vars

\* ------------------------------------------------- resolvePath on its own
\* the components a target is made of: "..", ".", "", media and image1.png
PartPool == {<<".", ".">>, <<".">>, <<>>, <<"media">>, IMAGE1_PNG}

\* the directories of the parts: ppt/slides, word, ppt
BasePool == {<<<<"ppt">>, <<"slides">>>>, <<<<"word">>>>, <<<<"ppt">>>>}

InitResolve ==
  /\ tasks \in {<<[fn |-> "resolvePath", baseParts |-> b, relParts |-> r,
                   base |-> Join(b, "/"), relative |-> Join(r, "/"),
                   pc |-> "called", ret |-> <<>>]>> :
                  b \in BasePool, r \in SeqsUpTo(PartPool, MaxParts) \ {<<>>}}
  /\ entries = <<>>
  /\ isProcessing = FALSE
  /\ compressEnabled = FALSE
  /\ nextId = 1

RP_Return ==
  \E t \in 1..Len(tasks) :
    /\ tasks[t].pc = "called"
    /\ tasks' = [tasks EXCEPT ![t].ret = resolvePath(tasks[t].base, tasks[t].relative),
                              ![t].pc = "returned"]
    /\ UNCHANGED <<entries, isProcessing, compressEnabled, nextId>>

NextResolve == RP_Return

SpecResolve == InitResolve /\ [][NextResolve]_vars

\* ------------------------------------------ updateContentTypes on its own
\* the Extension attributes a Default can carry
DefaultPool == {"xml", "png", "jpeg", "webp", "WEBP"}

\* the Defaults of a package: no extension twice, letter case left aside
DefaultsChoices ==
  {<<>>} \cup {ds \in SeqsUpTo(DefaultPool, MaxDefaults) :
                 \A i, j \in 1..Len(ds) : ToLowerTok(ds[i]) = ToLowerTok(ds[j]) => i = j}

\* archives with or without the content-types part, and the old extensions of the
\* renamed entries
InitTypes ==
  /\ tasks \in {<<[fn |-> "updateContentTypes", input |-> z, zip |-> z,
                   renamedExtensions |-> x, applied |-> 0]>> :
                  z \in {MediaEntries(MediaPrefix(TRUE), <<A_PNG>>)}
                        \cup {<<CtEntry(ds)>> \o MediaEntries(MediaPrefix(TRUE), <<A_PNG>>) :
                                ds \in DefaultsChoices},
                  x \in SUBSET {<<"png">>, <<"jpeg">>}}
  /\ entries = <<>>
  /\ isProcessing = FALSE
  /\ compressEnabled = FALSE
  /\ nextId = 1

CT_Apply ==
  \E t \in 1..Len(tasks) :
    /\ tasks[t].applied < MaxApplications
    /\ tasks' = [tasks EXCEPT
                   ![t].zip = updateContentTypes(tasks[t].zip, tasks[t].renamedExtensions),
                   ![t].applied = tasks[t].applied + 1]
    /\ UNCHANGED <<entries, isProcessing, compressEnabled, nextId>>

NextTypes == CT_Apply

SpecTypes == InitTypes /\ [][NextTypes]_vars

\* ------------------------------------------------------------------ claims
Calls == {tasks[t].d : t \in 1..Len(tasks)}

Logged(d) == {d.transcodeLog[k] : k \in 1..Len(d.transcodeLog)}

\* C1 (as claimed): the transcoder's output replaces a media entry only if it is
\* strictly smaller than the bytes it was made from, and an entry whose output was
\* not smaller is in the output archive at its original path with its original bytes.
C1_SizeSafety ==
  \A d \in Calls :
    d.pc = "done" =>
      \A r \in Logged(d) :
        /\ r.wasCompressed => r.output.size < r.input.size
        /\ ~r.wasCompressed =>
             /\ ZipHas(d.result[1].blob, r.path)
             /\ ZipGet(d.result[1].blob, r.path) = ZipGet(d.file.zip, r.path)

\* C2 (as claimed): a rename record exists for a media entry iff its transcoded
\* bytes were smaller, also when the entry's extension is already the recoded one.
C2_RenameIffSmaller ==
  \A d \in Calls :
    \A r \in Logged(d) : MapHas(d.renames, r.path) <=> r.wasCompressed

\* C2 (amended): a rename record old path -> new path exists for a media entry iff
\* its transcoded bytes were adopted and the new path differs from the old one; no
\* other path has a rename record.
C2_RenameIffSmallerAndMoved ==
  \A d \in Calls :
    /\ \A r \in Logged(d) :
         /\ MapHas(d.renames, r.path) <=> (r.wasCompressed /\ r.newPath # r.path)
         /\ MapHas(d.renames, r.path) => MapGet(d.renames, r.path) = r.newPath
    /\ MapKeys(d.renames) \subseteq {r.path : r \in Logged(d)}

\* C2 witness: the loop is over, one entry was recoded under its own path and has
\* no rename record, the other was recoded and renamed.
C2_Witness ==
  \E d \in Calls :
    /\ d.pc = "transcoding" /\ d.processed = d.total
    /\ \E r \in Logged(d) : r.wasCompressed /\ r.newPath = r.path
    /\ \E r \in Logged(d) : r.wasCompressed /\ MapHas(d.renames, r.path)

MediaExtsOf(z, pptx) ==
  {ExtOf(path) : path \in {q \in ZipPathSet(z) : StartsWith(q, MediaPrefix(pptx))}}

DefaultCount(z, ext) ==
  IF ~ZipHas(z, CT_PATH) THEN 0
  ELSE Cardinality({i \in 1..Len(ZipGet(z, CT_PATH).defaults) :
                      <<ToLowerTok(ZipGet(z, CT_PATH).defaults[i])>> = ext})

InputWellFormed(d) ==
  \A ext \in MediaExtsOf(d.file.zip, NameIsPptx(d.file.name)) :
    DefaultCount(d.file.zip, ext) = 1

\* C3 (as claimed): after a successful run on a package that had one Default per
\* media extension, every extension among the media entries of the output archive
\* has exactly one Default entry in [Content_Types].xml.
C3_OneDefaultPerExtension ==
  \A d \in Calls :
    d.pc = "done" /\ InputWellFormed(d) =>
      \A ext \in MediaExtsOf(d.result[1].blob, d.isPptx) :
        DefaultCount(d.result[1].blob, ext) = 1

\* the filename a relationship target should carry after the renames: the new
\* filename when the target's filename is a renamed one, else the target as it was
ExpectedTarget(target, fr) ==
  IF MapHas(fr, AfterLast(target, "/"))
  THEN SubSeq(target, 1, LastIndexOf(target, "/")) \o MapGet(fr, AfterLast(target, "/"))
  ELSE target

\* C4 (as claimed): after updateRelationships every relationship target that named
\* a renamed file names the new file, and every other target is unchanged.
C4_RenamePropagation ==
  \A d \in Calls :
    d.pc \in {"patched", "done"} /\ d.renames # <<>> =>
      \A path \in {q \in ZipPathSet(d.file.zip) : IsRelsPath(q)} :
        LET before == RelElements(ZipGet(d.file.zip, path).text)
            after == RelElements(ZipGet(d.zip, path).text)
            fr == FilenameRenames(d.renames, <<>>)
        IN /\ Len(after) = Len(before)
           /\ \A i \in 1..Len(before) :
                after[i].target = ExpectedTarget(before[i].target, fr)

PatchedParts(z) == {q \in ZipPathSet(z) : IsRelsPath(q) \/ q = CT_PATH}

\* C5: a transcoder failure fails the whole call: the error is kept, no result is
\* ever returned, no further entry is transcoded, no .rels part and no content-type
\* part is patched, and the call takes no further step.
C5_TranscoderFailureAborts ==
  \A d \in Calls :
    /\ d.error # "" => d.pc = "failed"
    /\ d.pc = "failed" =>
         /\ d.result = <<>>
         /\ ~ENABLED NextDoc
         /\ d.zip # <<>> =>
              \A q \in PatchedParts(d.file.zip) : ZipGet(d.zip, q) = ZipGet(d.file.zip, q)
         /\ d.error \notin {"Corrupted zip", "Unsupported file type"} =>
              /\ d.processed < d.total
              /\ Len(d.transcodeLog) = d.processed
              /\ Len(d.progressLog) = d.processed + 1

\* C5 witness: the second of two entries failed after the first was recoded and
\* renamed in the in-memory archive.
C5_Witness ==
  \E d \in Calls :
    /\ d.pc = "failed" /\ d.error = "Failed to load image"
    /\ d.processed = 1 /\ d.total = 2
    /\ d.renames # <<>>

\* C6: onProgress is called with (0, total) first and then once per media entry
\* with completed one higher, total never changing, ending at (total, total) on
\* success; the entries are transcoded in enumeration order.
C6_ProgressAndOrder ==
  \A d \in Calls :
    /\ \A k \in 1..Len(d.progressLog) : d.progressLog[k] = <<k - 1, d.total>>
    /\ d.pc \in {"transcoding", "patched", "done"} =>
         /\ Len(d.progressLog) = d.processed + 1
         /\ d.total = Len(d.mediaFiles)
         /\ d.mediaFiles =
              SelectSeq(ZipPaths(d.file.zip),
                LAMBDA q : StartsWith(q, MediaPrefix(d.isPptx)) /\ isRasterImage(q))
    /\ \A k \in 1..Len(d.transcodeLog) : d.transcodeLog[k].path = d.mediaFiles[k]
    /\ d.pc = "done" =>
         /\ d.processed = d.total
         /\ Len(d.transcodeLog) = d.total
         /\ LastProgress(d) = <<d.total, d.total>>

\* C6 witness: a run over two entries ended, one recoded and one left as it was.
C6_Witness ==
  \E d \in Calls :
    /\ d.pc = "done" /\ d.total = 2
    /\ d.progressLog = <<<<0, 2>>, <<1, 2>>, <<2, 2>>>>
    /\ d.transcodeLog[1].wasCompressed /\ ~d.transcodeLog[2].wasCompressed

Unsupported(d) == ~NameIsPptx(d.file.name) /\ ~NameIsDocx(d.file.name)

\* C9 (as claimed): a file named neither .pptx nor .docx fails with "Unsupported
\* file type" and no output, whatever its bytes are.
C9_UnsupportedWhateverBytes ==
  \A d \in Calls :
    Unsupported(d) /\ d.pc # "called" =>
      d.pc = "failed" /\ d.error = "Unsupported file type" /\ d.result = <<>>

\* C9 (amended): a file named neither .pptx nor .docx (case-insensitively) fails
\* with no output; the error is "Unsupported file type" when its bytes are a valid
\* archive and the archive loader's error when they are not.
C9_UnsupportedFails ==
  \A d \in Calls :
    Unsupported(d) /\ d.pc # "called" =>
      /\ d.pc = "failed" /\ d.result = <<>> /\ d.mediaFiles = <<>>
      /\ d.error = IF d.file.valid THEN "Unsupported file type" ELSE "Corrupted zip"

\* C9 witness: a valid archive named deck.pptx.bak was refused.
C9_Witness ==
  \E d \in Calls :
    /\ d.file.name = <<"deck", ".", "pptx", ".", "bak">> /\ d.file.valid
    /\ d.pc = "failed" /\ d.error = "Unsupported file type"

\* the size observations one part holds: for every image reference that resolves
\* and has a positive extent, the media path and the extent in pixels
PartObs(z, xmlPath, dpi, pptx) ==
  IF ~ZipHas(z, RelsPathOf(xmlPath)) THEN {}
  ELSE LET rid == parseRels(ZipGet(z, RelsPathOf(xmlPath)).text, BeforeLast(xmlPath, "/"))
           els == ZipGet(z, xmlPath).els
           EmbedOf(el) == IF pptx THEN el.embed ELSE Head(el.embeds)
           ExtentOf(el) == IF pptx THEN Head(el.exts) ELSE Head(el.extents)
           seen == {i \in 1..Len(els) :
                      /\ EmbedOf(els[i]) \in DOMAIN rid
                      /\ ExtentOf(els[i]).cx > 0 /\ ExtentOf(els[i]).cy > 0}
       IN {[path |-> rid[EmbedOf(els[i])],
            width |-> emuToPixels(ExtentOf(els[i]).cx, dpi),
            height |-> emuToPixels(ExtentOf(els[i]).cy, dpi)] : i \in seen}

ObsSoFar(d) ==
  UNION {PartObs(d.file.zip, d.xmlPaths[k], d.dpi, d.isPptx) : k \in 1..d.xi}

Greatest(S) == CHOOSE m \in S : \A v \in S : v <= m

\* C10: the dimension stored for a media path is the component-wise maximum of
\* all (width, height) pairs observed for it in the parts scanned so far, whatever
\* the order of the observations within and across the parts; a path with no
\* observation has no entry.
C10_DimensionIsMaximum ==
  \A d \in Calls :
    d.pc \in {"parsing", "transcoding", "patched", "done"} =>
      /\ DOMAIN d.imageDims = {o.path : o \in ObsSoFar(d)}
      /\ \A p \in DOMAIN d.imageDims :
           /\ d.imageDims[p].width = Greatest({o.width : o \in {x \in ObsSoFar(d) : x.path = p}})
           /\ d.imageDims[p].height = Greatest({o.height : o \in {x \in ObsSoFar(d) : x.path = p}})

\* C10 witness: both parts are scanned, each holds an observation of the same media
\* path, and the stored pair is none of the observed pairs.
C10_Witness ==
  \E d \in Calls :
    /\ d.pc = "parsing" /\ d.xi = 2
    /\ \E p \in DOMAIN d.imageDims :
         /\ \A k \in 1..2 :
              \E o \in PartObs(d.file.zip, d.xmlPaths[k], d.dpi, d.isPptx) : o.path = p
         /\ \A o \in ObsSoFar(d) :
              o.path = p => <<o.width, o.height>> # <<d.imageDims[p].width, d.imageDims[p].height>>


\* ------------------------------------------------------------- C7 and C8
EntriesWith(es, id) == {es[i] : i \in {j \in 1..Len(es) : es[j].id = id}}

Processing(es) == {i \in 1..Len(es) : es[i].status = "processing"}

Terminal(e) ==
  \/ e.status = "done" /\ e.result # <<>>
  \/ e.status = "error" /\ e.error # ""

\* C7: documents are processed strictly one after another.  At every moment at
\* most one listed entry has status "processing" and at most one processDocument
\* call is in flight; while a batch runs, the entry in "processing" is the one
\* whose call is in flight, every earlier entry of the batch that is still listed
\* is "done" or "error", and every later one is still "pending"; when no batch
\* runs no entry is "processing".  This holds whatever clicks on the compress
\* button, additions and removals are interleaved.
C7_StrictlySequential ==
  /\ Cardinality(Processing(entries)) <= 1
  /\ Len(tasks) <= 1
  /\ isProcessing <=> tasks # <<>>
  /\ tasks = <<>> => Processing(entries) = {}
  /\ \A t \in 1..Len(tasks) :
       LET T == tasks[t] IN
       \A k \in 1..Len(T.snap) :
         \A e \in EntriesWith(entries, T.snap[k].id) :
           /\ k < T.i => e.status \in {"done", "error"}
           /\ k = T.i => e.status = "processing" /\ T.d.owner = e.id
           /\ k > T.i => e.status = "pending"

\* the second document of a batch is in "processing" after the first ended, files
\* were added during the run, and the compress button is enabled again
C7_Witness ==
  /\ isProcessing
  /\ compressEnabled
  /\ Len(tasks) = 1
  /\ tasks[1].i = 2
  /\ \E e \in EntriesWith(entries, tasks[1].snap[2].id) : e.status = "processing"
  /\ \E e \in EntriesWith(entries, tasks[1].snap[1].id) : e.status \in {"done", "error"}
  /\ \E i \in 1..Len(entries) :
       /\ entries[i].status = "pending"
       /\ \A k \in 1..Len(tasks[1].snap) : tasks[1].snap[k].id # entries[i].id

\* C8: when processDocument fails for the entry of a batch, the handler sets that
\* entry, and no other, to "error" with the message of the failure; the batch goes
\* on with its next entry if there is one; and when the batch ends, every entry of
\* it that is still listed is "done" with a result or "error" with a message, and
\* isProcessing is false.
C8_FailureIsIsolated ==
  [][\A t \in 1..Len(tasks) :
       LET T == tasks[t]
           cur == T.snap[T.i].id
       IN
       /\ (T.d.pc = "failed" /\ tasks' # tasks) =>
            /\ \A i \in 1..Len(entries) :
                 IF entries[i].id = cur
                 THEN /\ entries'[i].status = "error"
                      /\ entries'[i].error = T.d.error
                      /\ T.d.error # ""
                 ELSE \/ entries'[i] = entries[i]
                      \/ /\ T.i < Len(T.snap)
                         /\ entries[i].id = T.snap[T.i + 1].id
                         /\ entries[i].status = "pending"
                         /\ entries'[i].status = "processing"
            /\ T.i < Len(T.snap) =>
                 /\ Len(tasks') = Len(tasks)
                 /\ tasks'[t].i = T.i + 1
                 /\ tasks'[t].d.pc = "called"
                 /\ tasks'[t].d.file = T.snap[T.i + 1].file
       /\ Len(tasks') < Len(tasks) =>
            /\ T.i = Len(T.snap)
            /\ ~isProcessing'
            /\ \A k \in 1..Len(T.snap) :
                 \A e \in EntriesWith(entries', T.snap[k].id) : Terminal(e)
    ]_vars

\* a batch of two documents has ended, one failed and the other compressed
C8_Witness ==
  /\ ~isProcessing
  /\ tasks = <<>>
  /\ \E i, j \in 1..Len(entries) :
       /\ i < j
       /\ entries[i].status = "error"
       /\ entries[i].error # ""
       /\ entries[j].status = "done"
       /\ entries[j].result # <<>>


\* ------------------------------------------------------------------- C11
\* the integer nearest to a / b for a >= 0 and b > 0, a tie going up
RoundedQuotient(a, b) == IF 2 * (a % b) >= b THEN a \div b + 1 ELSE a \div b

\* C11: for every extent e >= 0 and every DPI d, emuToPixels(e, d) is
\* round(e / 914400 * d), the integer nearest to e * d / 914400; and
\* emuToPixels(914400, 96) is 96.
C11_RoundsToNearest ==
  \A t \in 1..Len(tasks) :
    tasks[t].pc = "returned" =>
      /\ tasks[t].ret = RoundedQuotient(tasks[t].emu * tasks[t].dpi, EMU_PER_INCH)
      /\ (tasks[t].emu = EMU_PER_INCH /\ tasks[t].dpi = 96) => tasks[t].ret = 96


\* ------------------------------------------------------------------- C12
PictureCalls == {d \in Calls : d.file = PictureDeck /\ d.dpi = 150 /\ d.pc = "transcoding"}

PicturePath == MediaPrefix(TRUE) \o IMAGE1_PNG

\* C12 (as claimed): for a presentation whose one slide shows ppt/media/image1.png
\* at cx = 4572000, cy = 3429000, at DPI 150 the dimension computed for it is
\* 750 x 562.
C12_PictureIs750x562 ==
  \A d \in PictureCalls :
    /\ PicturePath \in DOMAIN d.imageDims
    /\ d.imageDims[PicturePath].width = 750
    /\ d.imageDims[PicturePath].height = 562

\* C12 (amended): for that presentation at DPI 150 the dimension computed for
\* ppt/media/image1.png is 750 x 563: 3429000 / 914400 * 150 is 562.5, which
\* Math.round takes up.
C12_PictureIs750x563 ==
  \A d \in PictureCalls :
    /\ DOMAIN d.imageDims = {PicturePath}
    /\ d.imageDims[PicturePath].width = 750
    /\ d.imageDims[PicturePath].height = 563

\* C12 witness: the presentation's slide was scanned at DPI 150 and its media entry
\* enumerated
C12_Witness ==
  \E d \in PictureCalls : d.mediaFiles = <<PicturePath>> /\ d.imageDims # <<>>


\* ------------------------------------------------------------------- C13
RECURSIVE Resolved(_, _)
\* the directory segments left after the components comps were followed from the
\* segments of the base, the last component being followed last
Resolved(baseParts, comps) ==
  IF comps = <<>> THEN baseParts
  ELSE LET before == Resolved(baseParts, SubSeq(comps, 1, Len(comps) - 1))
           last == comps[Len(comps)]
       IN IF last = <<".", ".">>
          THEN (IF before = <<>> THEN before ELSE SubSeq(before, 1, Len(before) - 1))
          ELSE IF last = <<".">> THEN before
          ELSE Append(before, last)

Returned(fn) == {tasks[t] : t \in {u \in 1..Len(tasks) : tasks[u].fn = fn /\ tasks[u].pc = "returned"}}

\* C13: a target that starts with neither ".." nor "./" resolves to base + "/" +
\* target; any other resolves to the base's segments from which every ".."
\* component removed the last one, every "." component was ignored and every other
\* component was appended.  "../media/image1.png" from "ppt/slides" gives
\* "ppt/media/image1.png", and "media/image1.png" from "word" gives
\* "word/media/image1.png".
C13_ResolvePath ==
  \A c \in Returned("resolvePath") :
    LET first == c.relParts[1]
        walked == \/ first = <<".", ".">>
                  \/ first = <<".">> /\ Len(c.relParts) > 1
    IN /\ ~walked => c.ret = c.base \o <<"/">> \o c.relative
       /\ walked => c.ret = Join(Resolved(c.baseParts, c.relParts), "/")
       /\ (c.base = <<"ppt", "/", "slides">>
             /\ c.relative = <<".", ".", "/", "media", "/", "image1", ".", "png">>)
            => c.ret = <<"ppt", "/", "media", "/", "image1", ".", "png">>
       /\ (c.base = <<"word">> /\ c.relative = <<"media", "/", "image1", ".", "png">>)
            => c.ret = <<"word", "/", "media", "/", "image1", ".", "png">>

\* C13 witness: "../media/image1.png" was resolved from "ppt/slides"
C13_Witness ==
  \E c \in Returned("resolvePath") :
    /\ c.base = <<"ppt", "/", "slides">>
    /\ c.relParts = <<<<".", ".">>, <<"media">>, IMAGE1_PNG>>
    /\ c.ret = <<"ppt", "/", "media", "/", "image1", ".", "png">>


\* ----------------------------------------------------------- C14 and C15
Applied == {tasks[t] : t \in {u \in 1..Len(tasks) : tasks[u].fn = "updateContentTypes"}}

WebpDefaults(z) ==
  LET defaults == ZipGet(z, CT_PATH).defaults
  IN Cardinality({i \in 1..Len(defaults) : ToLowerTok(defaults[i]) = "webp"})

\* C14: after updateContentTypes was applied, once or several times in a row, to
\* an archive with a content-types part and with the same non-empty extension set,
\* the part holds exactly one Default whose Extension is webp in any letter case;
\* a further application adds none.
C14_OneWebpDefault ==
  \A c \in Applied :
    (ZipHas(c.input, CT_PATH) /\ c.renamedExtensions # {} /\ c.applied >= 1) =>
      /\ WebpDefaults(c.zip) = 1
      /\ ZipGet(updateContentTypes(c.zip, c.renamedExtensions), CT_PATH).defaults
           = ZipGet(c.zip, CT_PATH).defaults

\* C14 witness: updateContentTypes was applied twice to a part that had no webp
\* Default
C14_Witness ==
  \E c \in Applied :
    /\ ZipHas(c.input, CT_PATH) /\ WebpDefaults(c.input) = 0
    /\ c.renamedExtensions # {} /\ c.applied = 2
    /\ WebpDefaults(c.zip) = 1

\* C15: when the part already holds a Default for webp, updateContentTypes leaves
\* its stored text as it was; when it holds none (and an extension was renamed),
\* the only change to the part is one Default element inserted as first child.
C15_NoOpOrOneInsertion ==
  \A c \in Applied :
    (ZipHas(c.input, CT_PATH) /\ c.applied = 1) =>
      LET before == ZipGet(c.input, CT_PATH)
          after == ZipGet(c.zip, CT_PATH)
      IN /\ WebpDefaults(c.input) > 0 => after = before
         /\ (WebpDefaults(c.input) = 0 /\ c.renamedExtensions # {}) =>
              after = [before EXCEPT !.defaults = <<"webp">> \o before.defaults]


\* ------------------------------------------------------------------- C16
NoRasterMedia(d) ==
  /\ NameIsDocx(d.file.name) /\ ~NameIsPptx(d.file.name) /\ d.file.valid
  /\ \A path \in ZipPathSet(d.file.zip) :
       ~(StartsWith(path, MediaPrefix(FALSE)) /\ isRasterImage(path))

\* C16: for a word-processing package with no raster media entry, processDocument
\* never fails, transcodes nothing, records no rename and never patches a
\* relationship or the content types; it reports imagesTotal = 0 and
\* imagesProcessed = 0, and the output archive holds exactly the entries of the
\* input, paths and contents.
C16_NoRasterNoChange ==
  \A d \in Calls :
    NoRasterMedia(d) =>
      /\ d.pc \in {"called", "parsing", "transcoding", "done"}
      /\ d.renames = <<>> /\ d.renamedExtensions = {} /\ d.transcodeLog = <<>>
      /\ d.pc # "called" => d.zip = d.file.zip
      /\ d.pc = "done" =>
           /\ d.result[1].stats = [imagesProcessed |-> 0, imagesTotal |-> 0]
           /\ d.result[1].blob = d.file.zip
           /\ d.progressLog = <<<<0, 0>>>>

\* C16 witness: a document whose word/media holds a vector image and a font was
\* processed to the end
C16_Witness ==
  \E d \in Calls :
    /\ NoRasterMedia(d) /\ d.pc = "done"
    /\ ZipHas(d.file.zip, MediaPrefix(FALSE) \o A_EMF)
    /\ ZipHas(d.file.zip, MediaPrefix(FALSE) \o FONT_ODTTF)


\* ------------------------------------------------------------------- C17
RasterMediaOf(d) ==
  {path \in ZipPathSet(d.file.zip) :
     StartsWith(path, MediaPrefix(NameIsPptx(d.file.name))) /\ isRasterImage(path)}

\* C17: on success imagesTotal is the number of raster media entries of the input,
\* imagesProcessed is the number of entries whose transcoded bytes were adopted,
\* 0 <= imagesProcessed <= imagesTotal, and the output filename is the input's
\* with _compressed inserted before its extension.
C17_StatsAndFilename ==
  \A d \in Calls :
    d.pc = "done" =>
      LET stats == d.result[1].stats
          name == d.file.name
      IN /\ stats.imagesTotal = Cardinality(RasterMediaOf(d))
         /\ stats.imagesTotal = Len(d.mediaFiles)
         /\ stats.imagesProcessed =
              Cardinality({k \in 1..Len(d.transcodeLog) : d.transcodeLog[k].wasCompressed})
         /\ 0 <= stats.imagesProcessed /\ stats.imagesProcessed <= stats.imagesTotal
         /\ d.result[1].filename =
              SubSeq(name, 1, Len(name) - 2) \o <<"_compressed", ".", name[Len(name)]>>

\* C17 witness: a run over two entries ended with one of them adopted, for a file
\* named deck.pptx
C17_Witness ==
  \E d \in Calls :
    /\ d.pc = "done"
    /\ d.result[1].stats = [imagesProcessed |-> 1, imagesTotal |-> 2]
    /\ d.result[1].filename = <<"deck", "_compressed", ".", "pptx">>


\* ------------------------------------------------------------------- C18
OtherMediaOf(d) ==
  {path \in ZipPathSet(d.file.zip) :
     /\ ZipGet(d.file.zip, path).kind = "blob"
     /\ path \notin RasterMediaOf(d)}

\* C18: only entries under the format's media directory with a raster extension
\* are transcoded, and every other media entry of the input (a vector image, a
\* font, a WebP image, an image outside the media directory) has the same path and
\* the same bytes in the output archive, whatever the transcoder returned.
C18_OtherMediaUntouched ==
  \A d \in Calls :
    /\ \A r \in Logged(d) : r.path \in RasterMediaOf(d)
    /\ d.pc = "done" =>
         \A path \in OtherMediaOf(d) :
           /\ ZipHas(d.result[1].blob, path)
           /\ ZipGet(d.result[1].blob, path) = ZipGet(d.file.zip, path)


\* ------------------------------------------------------------------- C19
\* the phases that follow the enumeration of the media entries
AfterEnumeration == {"transcoding", "patched", "done"}

\* C19: a run of processDocument goes through load, dimension extraction, media
\* enumeration, the transcoding of entries 1..n, patching and serialization in
\* this order, and stops only in "done" or "failed": a run that returned or threw
\* takes no step, and in every other phase the next step of the run can be taken
\* (the load, the enumeration, the transcoding of the next entry or the
\* serialization, else the scan of the next part or the patching, which lead to
\* "parsing" and "patched").  Nothing is scanned before
\* the archive is loaded, media are enumerated once every part was scanned, the
\* entries are transcoded one after the other in enumeration order, the
\* relationship parts and the content types are as in the input until the last
\* entry was transcoded, they are patched only if a rename was recorded, and the
\* result is returned after that.
C19_PhaseOrder ==
  \A d \in Calls :
    /\ d.pc \in {"called", "parsing", "failed"} \cup AfterEnumeration
    /\ d.pc \in {"done", "failed"} => ~ENABLED NextDoc
    /\ d.pc \notin {"done", "failed"} =>
         \/ ENABLED (PD_Load \/ PD_Enumerate \/ PD_Transcode \/ PD_TranscodeFail
                       \/ PD_Serialize)
         \/ /\ d.pc = "parsing" /\ d.xi < Len(d.xmlPaths)
            /\ ParseStep(d).pc = "parsing" /\ ParseStep(d).xi = d.xi + 1
         \/ /\ d.pc = "transcoding" /\ d.processed = d.total /\ d.renames # <<>>
            /\ PatchStep(d).pc = "patched"
    /\ d.pc = "called" => d.zip = <<>> /\ d.xi = 0
    /\ d.pc = "parsing" => d.zip = d.file.zip /\ d.xi <= Len(d.xmlPaths)
    /\ d.pc \in {"called", "parsing"} =>
         d.progressLog = <<>> /\ d.transcodeLog = <<>> /\ d.processed = 0
    /\ d.pc \in AfterEnumeration =>
         /\ d.xi = Len(d.xmlPaths)
         /\ d.progressLog # <<>>
         /\ d.processed <= d.total
         /\ Len(d.transcodeLog) = d.processed
         /\ \A k \in 1..Len(d.transcodeLog) : d.transcodeLog[k].path = d.mediaFiles[k]
    /\ d.pc = "transcoding" =>
         \A q \in PatchedParts(d.file.zip) : ZipGet(d.zip, q) = ZipGet(d.file.zip, q)
    /\ d.pc \in {"patched", "done"} => d.processed = d.total
    /\ d.pc = "patched" => d.renames # <<>> /\ d.result = <<>>
    /\ d.pc = "done" =>
         /\ d.result # <<>> /\ d.result[1].blob = d.zip
         /\ IF d.renames = <<>>
            THEN \A q \in PatchedParts(d.file.zip) :
                   ZipGet(d.zip, q) = ZipGet(d.file.zip, q)
            ELSE ZipGet(d.zip, CT_PATH).form = "serialized"
    /\ d.pc = "failed" => d.result = <<>> /\ d.error # ""

\* C19 witness: a run went through every phase: two parts scanned, one entry
\* transcoded, its rename patched, the archive serialized
C19_Witness ==
  \E d \in Calls :
    /\ d.pc = "done" /\ d.renames # <<>>
    /\ Len(d.xmlPaths) = 2 /\ d.xi = 2 /\ d.total = 1 /\ d.processed = 1
    /\ ZipGet(d.zip, CT_PATH).form = "serialized"

\* ------------------------------------------------------------------- C20
\* the raster media entries the parsers recorded no dimensions for
Undeclared(d) == {path \in RasterMediaOf(d) : path \notin DOMAIN d.imageDims}

\* C20: a raster media entry with no entry in the dimension map does not fail the
\* document.  No dimension is recorded from an archive without relationship
\* parts; whenever the browser decodes the image and encodes the canvas, the
\* transcoding of an undeclared entry returns; a run that ended has transcoded
\* every undeclared entry, with the sentinel as target in both components and a
\* canvas of the native size; and no canvas, and no adopted output, is larger
\* than the decoded image in width or in height.
C20_UndeclaredIsTranscoded ==
  \A d \in Calls :
    /\ (d.pc \in AfterEnumeration /\ ~\E q \in ZipPathSet(d.file.zip) : IsRelsPath(q)) =>
         DOMAIN d.imageDims = {}
    /\ (d.pc = "transcoding" /\ d.processed < d.total
        /\ d.mediaFiles[d.processed + 1] \in Undeclared(d)
        /\ ZipHas(d.zip, d.mediaFiles[d.processed + 1])) =>
         \A env \in Envs :
           (env.decode /\ env.webp > 0) => TranscodeStep(d, env).pc = "transcoding"
    /\ d.pc = "done" =>
         \A path \in Undeclared(d) : \E r \in Logged(d) : r.path = path
    /\ \A r \in Logged(d) :
         LET canvas == CanvasSize(r.input, r.width, r.height)
         IN /\ r.path \in Undeclared(d) =>
                 /\ r.width = SENTINEL /\ r.height = SENTINEL
                 /\ canvas = [width |-> r.input.w, height |-> r.input.h]
            /\ canvas.width <= r.input.w /\ canvas.height <= r.input.h
            /\ r.output.w <= r.input.w /\ r.output.h <= r.input.h
            /\ r.wasCompressed => r.output.w = canvas.width /\ r.output.h = canvas.height

\* C20 witness: a run over a presentation without relationship parts ended, both
\* of its images recoded at their native size
C20_Witness ==
  \E d \in Calls :
    /\ d.pc = "done" /\ d.total = 2
    /\ ~\E q \in ZipPathSet(d.file.zip) : IsRelsPath(q)
    /\ \A r \in Logged(d) :
         /\ r.wasCompressed /\ r.width = SENTINEL
         /\ r.output.w = NaturalWidth /\ r.output.h = NaturalHeight

\* ------------------------------------------------------------------- C21
\* whether the element el of a part shows the relationship id at a positive extent
ShowsAtExtent(el, id, pptx) ==
  IF pptx
  THEN el.local = "blip" /\ el.embed = id /\ findExtentInAncestors(el) # NoExtent
  ELSE /\ el.local \in {"inline", "anchor"}
       /\ el.extents # <<>> /\ Head(el.extents).cx > 0 /\ Head(el.extents).cy > 0
       /\ el.embeds # <<>> /\ Head(el.embeds) = id

\* C21: a relationship whose Target begins with "/" is resolved by parseRels to
\* the archive path the target names (the target without its first "/"), and a
\* media entry shown through such a relationship at a positive extent has an entry
\* in the dimension map, as it has when referenced through the relative form.
C21_AbsoluteTarget ==
  \A d \in Calls :
    d.pc \in AfterEnumeration =>
      \A k \in 1..Len(d.xmlPaths) :
        LET xmlPath == d.xmlPaths[k]
            relsPath == RelsPathOf(xmlPath)
        IN ZipHas(d.file.zip, relsPath) =>
             LET text == ZipGet(d.file.zip, relsPath).text
                 ridToTarget == parseRels(text, BeforeLast(xmlPath, "/"))
                 rels == RelElements(text)
                 els == ZipGet(d.file.zip, xmlPath).els
             IN \A j \in 1..Len(rels) :
                  (rels[j].id # "" /\ rels[j].target # <<>> /\ Head(rels[j].target) = "/"
                   /\ \A m \in (j + 1)..Len(rels) : rels[m].id # rels[j].id) =>
                    /\ ridToTarget[rels[j].id] = Tail(rels[j].target)
                    /\ (/\ ZipHas(d.file.zip, Tail(rels[j].target))
                        /\ \E n \in 1..Len(els) :
                             ShowsAtExtent(els[n], rels[j].id, d.isPptx)) =>
                         Tail(rels[j].target) \in DOMAIN d.imageDims

\* ------------------------------------------------------------------- C22
\* the entries of the archive z under the media directory of the format
MediaPathsOf(z, pptx) == {path \in ZipPathSet(z) : StartsWith(path, MediaPrefix(pptx))}

\* C22: no media entry is lost by renaming: the output archive of a run that
\* ended holds as many media entries as the input, and the content of every media
\* entry of the input, recoded or not, is held by an entry of the output, two
\* entries of the input never by the same one.
C22_NoMediaLost ==
  \A d \in Calls :
    d.pc = "done" =>
      LET before == MediaPathsOf(d.file.zip, d.isPptx)
          after == MediaPathsOf(d.result[1].blob, d.isPptx)
      IN /\ Cardinality(after) = Cardinality(before)
         /\ \A path \in before :
              \E q \in after : ZipGet(d.result[1].blob, q).origin = path

\* ------------------------------------------------------------------- C23
\* whether path is an entry of the archive z that holds an image
IsImageEntry(z, path) == ZipHas(z, path) /\ ZipGet(z, path).kind = "blob"

\* C23: referential integrity is kept: after a run that ended, every relationship
\* of a scanned part whose Target resolved to an image entry of the input resolves
\* to an entry of the output, and that entry holds the content, recoded or not,
\* of the same image of the input.
C23_ReferentialIntegrity ==
  \A d \in Calls :
    d.pc = "done" =>
      \A k \in 1..Len(d.xmlPaths) :
        LET parentDir == BeforeLast(d.xmlPaths[k], "/")
            relsPath == RelsPathOf(d.xmlPaths[k])
            out == d.result[1].blob
        IN ZipHas(d.file.zip, relsPath) =>
             /\ ZipHas(out, relsPath)
             /\ LET before == RelElements(ZipGet(d.file.zip, relsPath).text)
                    after == RelElements(ZipGet(out, relsPath).text)
                IN /\ Len(after) = Len(before)
                   /\ \A j \in 1..Len(before) :
                        (/\ before[j].target # <<>>
                         /\ IsImageEntry(d.file.zip, resolvePath(parentDir, before[j].target))) =>
                          /\ after[j].id = before[j].id
                          /\ IsImageEntry(out, resolvePath(parentDir, after[j].target))
                          /\ ZipGet(out, resolvePath(parentDir, after[j].target)).origin
                               = resolvePath(parentDir, before[j].target)

====
